---- MODULE Spec2Model ----
(***************************************************************************)
(* A model of src/server.js: the REST backend in its local-disk revision   *)
(* (lines 1-261) and its git-sync revision (lines 263-542).  Every HTTP    *)
(* request is a process whose steps are the handler's awaits; the document *)
(* store (users, posts, sections) and the uploads directory are shared.    *)
(***************************************************************************)
EXTENDS Integers, Sequences, FiniteSets, TLC

VARIABLES
    rev,        \* which revision runs: "disk" (1-261) or "gitsync" (263-542)
    clock,      \* Date.now(), in milliseconds
    users,      \* the User collection: a set of documents
    posts,      \* the Post collection: a set of documents
    sections,   \* the Section collection, in natural (insertion) order
    uploads,    \* the uploads directory: a set of [name, blob], one per name
    req,        \* req[i]: the i-th request received (method, path and inputs)
    pc,         \* pc[i]: where the handler of request i stands
    loc,        \* loc[i]: the handler's local variables
    resp,       \* resp[i]: the response sent to the client of request i
    bg,         \* bg[i]: the commitAndPushFiles task started by request i
    cron,       \* the scheduled pull: the timer and the last results
    hist,       \* hist[i]: history of request i, read by the properties only
    saved       \* history: the last content written for each (userId, sectionId)

vars == <<rev, clock, users, posts, sections, uploads, req, pc, loc, resp, bg, cron,
          hist, saved>>

stores == <<users, posts, sections>>

----------------------------------------------------------------------------
(* Bounds of the model. *)

MaxReq == 4        \* requests received in one behaviour
AuthReqs == 2      \* of them, in a behaviour of registration and login
SectionReqs == 4   \* in a behaviour of the section store
PostReqs == 3      \* in a behaviour of the post store
MediaReqs == 2     \* in a behaviour of the uploads directory
SyncReqs == 2      \* in a behaviour of profile pictures and the git sync
MaxClock == 1      \* Date.now() ranges over 0..MaxClock
MaxFiles == 2      \* files attached to one /create-post request
MaxPulls == 2      \* ticks of the scheduled pull

(* Program constants. *)

SaltRounds == 10   \* bcrypt.hash(password, 10)

Reqs == 1..MaxReq
Emails == {"a@x.com", "b@x.com"}
Usernames == {"a", "b"}
Passwords == {"p", "q"}
Salts == {"s1", "s2"}
Exts == {".png", ".jpg"}
ObjectIds == Reqs          \* a document's _id is the index of the request that made it
UserIds == {1, 2}          \* the userId a request names
PostIds == {1, 2}          \* the postId a request names
SectionIds == {"bio", "work"}
Contents == {"hello", "world"}

Null == <<>>
Some(x) == <<x>>

Message(m) == [message |-> m]

----------------------------------------------------------------------------
(* bcrypt: a salted one-way hash and its comparison. *)

Hash(password, salt, rounds) ==
    [alg |-> "bcrypt", rounds |-> rounds, salt |-> salt,
     digest |-> <<"H", password, salt, rounds>>]

\* A faulty variant: the comparison accepts any password
CompareAny(password, hashed) == hashed.alg = "bcrypt"

Compare(password, hashed) == Hash(password, hashed.salt, hashed.rounds) = hashed

----------------------------------------------------------------------------
(* multer's disk storage. *)

\* path.extname(file.originalname) is the extension the client sent.
Filename(now, ext) == [ts |-> now, ext |-> ext]

Url(name) == [mount |-> "/uploads", name |-> name]

\* Writing a file replaces the file of that name.
StoreFile(dir, name, blob) ==
    {f \in dir : f.name # name} \cup {[name |-> name, blob |-> blob]}

----------------------------------------------------------------------------
(* The requests. *)

NoReq ==
    [op |-> "none", email |-> "", username |-> "", password |-> "",
     multipart |-> FALSE, files |-> <<>>, userId |-> 0, sectionId |-> "",
     content |-> "", postId |-> 0]

NoLoc == [names |-> <<>>, user |-> {}, hashed |-> Null, post |-> {}]

NoResp == [status |-> 0, body |-> Message("")]

\* after: the requests answered before this one was received; wrote: the
\* handler changed a store; match: the login's credentials were on record;
\* order: the post was the order-th constructed; expect: what a read is
\* to return, from the history.
NoHist == [after |-> {}, wrote |-> FALSE, match |-> FALSE, order |-> 0,
           expect |-> <<>>]

RegisterReqs ==
    {[NoReq EXCEPT !.op = "register", !.email = e, !.username = n,
                   !.password = p, !.multipart = TRUE, !.files = f] :
        e \in Emails, n \in Usernames, p \in Passwords,
        f \in {<<>>, <<".png">>}}

LoginReqs ==
    {[NoReq EXCEPT !.op = "login", !.username = n, !.password = p] :
        n \in Usernames, p \in Passwords}

UpdatePictureReqs ==
    {[NoReq EXCEPT !.op = "update-profile-picture", !.userId = u,
                   !.multipart = TRUE, !.files = f] :
        u \in ObjectIds, f \in {<<>>, <<".jpg">>}}

\* The handler's first step, after multer has stored the request's files.
Entry(op) ==
    CASE op = "register" -> "regFind"
      [] op = "login" -> "loginFind"
      [] op = "update-profile-picture" -> "updFind"
      [] op = "create-post" -> "createPost"
      [] op = "user-posts" -> "userPosts"
      [] op = "save-section" -> "saveSection"
      [] op = "get-sections" -> "getSections"
      [] op = "delete-post" -> "deletePost"

Done(i) == pc[i] = "done"

\* res.status(s).json(b), which ends the handler.
Respond(i, s, b) ==
    /\ resp' = [resp EXCEPT ![i] = [status |-> s, body |-> b]]
    /\ pc' = [pc EXCEPT ![i] = "done"]

\* A request is received: requests are numbered in the order they arrive.
Arrive(i, r) ==
    /\ pc[i] = "new"
    /\ \A j \in 1..(i - 1) : pc[j] # "new"
    /\ req' = [req EXCEPT ![i] = r]
    /\ pc' = [pc EXCEPT ![i] = IF r.files = <<>> THEN Entry(r.op) ELSE "upload"]
    /\ hist' = [hist EXCEPT ![i].after = {j \in Reqs : Done(j)}]
    /\ UNCHANGED <<rev, clock, stores, uploads, loc, resp, bg, cron, saved>>

\* upload.single / upload.array: multer stores the next file of the request
\* under Date.now() + its extension, then calls the handler.
Upload(i) ==
    /\ pc[i] = "upload"
    /\ LET k == Len(loc[i].names) + 1
           name == Filename(clock, req[i].files[k])
       IN /\ uploads' = StoreFile(uploads, name, <<i, k>>)
          /\ loc' = [loc EXCEPT ![i].names = Append(@, name)]
          /\ pc' = [pc EXCEPT ![i] =
                      IF k = Len(req[i].files) THEN Entry(req[i].op) ELSE "upload"]
    /\ UNCHANGED <<rev, clock, stores, req, resp, bg, cron, hist, saved>>

\* req.file ? `/uploads/${req.file.filename}` : null
ProfilePicture(i) ==
    IF loc[i].names = <<>> THEN Null ELSE Some(Url(loc[i].names[1]))

\* Time passes.
Tick ==
    /\ clock < MaxClock
    /\ clock' = clock + 1
    /\ UNCHANGED <<rev, stores, uploads, req, pc, loc, resp, bg, cron, hist, saved>>

----------------------------------------------------------------------------
(* The User collection. *)

\* The first document of a result, in natural order.
FindOne(docs) ==
    IF docs = {} THEN {} ELSE {CHOOSE d \in docs : \A e \in docs : d.id <= e.id}

\* A faulty variant: the existence check looks at the email only
EmailOnly(i) == {u \in users : u.email = req[i].email}

\* { $or: [{ email }, { username }] }
EmailOrUsername(i) ==
    {u \in users : u.email = req[i].email \/ u.username = req[i].username}

\* { username }
ByUsername(i) == {u \in users : u.username = req[i].username}

\* A faulty variant: the schema declares no unique index
NoUniqueIndex(doc) == TRUE

\* email: { unique: true }, username: { unique: true }: the insert is
\* refused (E11000) when a document holds the email or the username.
UniqueIndexAllows(doc) ==
    \A u \in users : u.email # doc.email /\ u.username # doc.username

\* POST /register, to the first await: User.findOne, then bcrypt.hash.
RegFind(i) ==
    /\ pc[i] = "regFind"
    /\ IF FindOne(EmailOrUsername(i)) # {}
          THEN /\ Respond(i, 400, Message("Email or username already exists"))
               /\ UNCHANGED loc
          ELSE /\ \E salt \in Salts :
                     loc' = [loc EXCEPT ![i].hashed =
                               Some(Hash(req[i].password, salt, SaltRounds))]
               /\ pc' = [pc EXCEPT ![i] = "regSave"]
               /\ UNCHANGED resp
    /\ UNCHANGED <<rev, clock, stores, uploads, req, bg, cron, hist, saved>>

\* POST /register: user.save() and the response.
RegSave(i) ==
    /\ pc[i] = "regSave"
    /\ LET user == [id |-> i, email |-> req[i].email, username |-> req[i].username,
                    password |-> loc[i].hashed[1],
                    profilePicture |-> ProfilePicture(i)]
       IN IF UniqueIndexAllows(user)
             THEN /\ users' = users \cup {user}
                  /\ hist' = [hist EXCEPT ![i].wrote = TRUE]
                  /\ Respond(i, 201, Message("User registered successfully"))
             ELSE /\ Respond(i, 500, Message("Internal server error"))
                  /\ UNCHANGED <<users, hist>>
    /\ UNCHANGED <<rev, clock, posts, sections, uploads, req, loc, bg, cron, saved>>

\* POST /login, to the first await: User.findOne({ username }).
LoginFind(i) ==
    /\ pc[i] = "loginFind"
    /\ LET user == FindOne(ByUsername(i))
       IN /\ hist' = [hist EXCEPT ![i].match =
                        \E u \in users :
                            /\ u.username = req[i].username
                            /\ \E s \in Salts :
                                 u.password = Hash(req[i].password, s, SaltRounds)]
          /\ IF user = {}
                THEN /\ Respond(i, 400, Message("Invalid username or password"))
                     /\ UNCHANGED loc
                ELSE /\ loc' = [loc EXCEPT ![i].user = user]
                     /\ pc' = [pc EXCEPT ![i] = "loginCompare"]
                     /\ UNCHANGED resp
    /\ UNCHANGED <<rev, clock, stores, uploads, req, bg, cron, saved>>

\* The body of a successful login.
LoginBody(user) ==
    [username |-> user.username, profilePicture |-> user.profilePicture,
     userId |-> user.id]

\* POST /login: bcrypt.compare and the response.
LoginCompare(i) ==
    /\ pc[i] = "loginCompare"
    /\ LET user == CHOOSE u \in loc[i].user : TRUE
       IN IF ~Compare(req[i].password, user.password)
             THEN Respond(i, 400, Message("Invalid username or password"))
             ELSE Respond(i, 200, LoginBody(user))
    /\ UNCHANGED <<rev, clock, stores, uploads, req, loc, bg, cron, hist, saved>>

----------------------------------------------------------------------------
(* The Section collection. *)

SaveSectionReqs ==
    {[NoReq EXCEPT !.op = "save-section", !.userId = u, !.sectionId = s,
                   !.content = c] :
        u \in UserIds, s \in SectionIds, c \in Contents}

GetSectionsReqs ==
    {[NoReq EXCEPT !.op = "get-sections", !.userId = u] : u \in UserIds}

\* The positions of the documents that { userId, sectionId } matches.
SectionMatches(i) ==
    {k \in 1..Len(sections) :
        /\ sections[k].userId = req[i].userId
        /\ sections[k].sectionId = req[i].sectionId}

\* The history of saves, with the save of request i applied.
Saves(i) ==
    {r \in saved : r.userId # req[i].userId \/ r.sectionId # req[i].sectionId}
        \cup {[userId |-> req[i].userId, sectionId |-> req[i].sectionId,
               content |-> req[i].content]}

\* { content } applied to the document at position k.
UpdateContent(i, k) == [sections EXCEPT ![k].content = req[i].content]

\* POST /save-section: Section.findOneAndUpdate with upsert.  The store
\* updates a matching document atomically; with no match it goes on to
\* insert, and the schema declares no unique index on (userId, sectionId)
\* that would stop two inserts.
SaveSection(i) ==
    /\ pc[i] = "saveSection"
    /\ IF SectionMatches(i) # {}
          THEN LET k == CHOOSE m \in SectionMatches(i) :
                            \A n \in SectionMatches(i) : m <= n
               IN /\ sections' = UpdateContent(i, k)
                  /\ saved' = Saves(i)
                  /\ hist' = [hist EXCEPT ![i].wrote = (sections' # sections)]
                  /\ Respond(i, 200, sections'[k])
          ELSE /\ pc' = [pc EXCEPT ![i] = "sectionInsert"]
               /\ UNCHANGED <<sections, saved, hist, resp>>
    /\ UNCHANGED <<rev, clock, users, posts, uploads, req, loc, bg, cron>>

\* POST /save-section: the insert of the upsert, and the response.
SectionInsert(i) ==
    /\ pc[i] = "sectionInsert"
    /\ LET section == [id |-> i, userId |-> req[i].userId,
                       sectionId |-> req[i].sectionId, content |-> req[i].content]
       IN /\ sections' = Append(sections, section)
          /\ saved' = Saves(i)
          /\ hist' = [hist EXCEPT ![i].wrote = TRUE]
          /\ Respond(i, 200, section)
    /\ UNCHANGED <<rev, clock, users, posts, uploads, req, loc, bg, cron>>

\* sections.reduce((acc, section) => { acc[section.sectionId] = section.content })
RECURSIVE Reduce(_)
Reduce(docs) ==
    IF docs = <<>> THEN <<>>
    ELSE LET acc == Reduce(SubSeq(docs, 1, Len(docs) - 1))
             section == docs[Len(docs)]
         IN [s \in DOMAIN acc \cup {section.sectionId} |->
                IF s = section.sectionId THEN section.content ELSE acc[s]]

\* Section.find({ userId }), in natural order.
SectionsOf(userId) == SelectSeq(sections, LAMBDA d : d.userId = userId)

\* The mapping the history of saves gives for a user.
SavedOf(userId) ==
    LET mine == {r \in saved : r.userId = userId}
    IN [s \in {r.sectionId : r \in mine} |->
           (CHOOSE r \in mine : r.sectionId = s).content]

\* GET /get-sections/:userId
GetSections(i) ==
    /\ pc[i] = "getSections"
    /\ Respond(i, 200, Reduce(SectionsOf(req[i].userId)))
    /\ hist' = [hist EXCEPT ![i].expect = SavedOf(req[i].userId)]
    /\ UNCHANGED <<rev, clock, stores, uploads, req, loc, bg, cron, saved>>

----------------------------------------------------------------------------
(* The Post collection. *)

\* The files of one request: up to MaxFiles extensions.
FileLists == UNION {[1..n -> Exts] : n \in 0..MaxFiles}

\* A multipart request carries req.files; any other body leaves it undefined.
CreatePostReqs ==
    {[NoReq EXCEPT !.op = "create-post", !.userId = u, !.content = "hello",
                   !.multipart = TRUE, !.files = f] :
        u \in UserIds, f \in FileLists}
        \cup {[NoReq EXCEPT !.op = "create-post", !.userId = u,
                            !.content = "hello"] : u \in UserIds}

\* The requests that carry at most one .png file.
Plain(reqs) == {r \in reqs : r.files \in {<<>>, <<".png">>}}

\* The multipart requests that carry no file.
Bare(reqs) == {r \in reqs : r.multipart /\ r.files = <<>>}

UserPostsReqs == {[NoReq EXCEPT !.op = "user-posts", !.userId = u] : u \in UserIds}

DeletePostReqs ==
    {[NoReq EXCEPT !.op = "delete-post", !.postId = p] : p \in PostIds}

\* files.map(file => `/uploads/${file.filename}`)
ImageUrl(i) == [k \in 1..Len(loc[i].names) |-> Url(loc[i].names[k])]

\* The posts constructed so far.
Constructed == {j \in Reqs : hist[j].order > 0}

\* POST /create-post, to its await: files.map and new Post({...}), whose
\* createdAt defaults to Date.now() and whose _id is drawn in order.
CreatePost(i) ==
    /\ pc[i] = "createPost"
    /\ IF ~req[i].multipart
          THEN /\ Respond(i, 500, Message("Internal server error"))
               /\ UNCHANGED <<loc, hist>>
          ELSE /\ loc' = [loc EXCEPT ![i].post =
                            {[id |-> i, userId |-> req[i].userId,
                              content |-> req[i].content,
                              imageUrl |-> ImageUrl(i), createdAt |-> clock]}]
               /\ hist' = [hist EXCEPT ![i].order = Cardinality(Constructed) + 1]
               /\ pc' = [pc EXCEPT ![i] = "postSave"]
               /\ UNCHANGED resp
    /\ UNCHANGED <<rev, clock, stores, uploads, req, bg, cron, saved>>

\* commitAndPushFiles(files) is called and not awaited (git-sync revision).
StartSync(i) == IF rev = "gitsync" THEN [bg EXCEPT ![i] = "add"] ELSE bg

\* POST /create-post: post.save(), the sync and the response.
PostSave(i) ==
    /\ pc[i] = "postSave"
    /\ posts' = posts \cup loc[i].post
    /\ hist' = [hist EXCEPT ![i].wrote = TRUE]
    /\ bg' = StartSync(i)
    /\ Respond(i, 201, [message |-> "Post created successfully",
                        imageUrl |-> ImageUrl(i)])
    /\ UNCHANGED <<rev, clock, users, sections, uploads, req, loc, cron, saved>>

\* .populate('userId', 'username profilePicture'): the owner's public
\* fields, or null when no such user exists.
Populate(post) ==
    [post EXCEPT !.userId =
        LET owner == {u \in users : u.id = post.userId}
        IN IF owner = {} THEN Null
           ELSE Some([id |-> post.userId,
                      username |-> (CHOOSE u \in owner : TRUE).username,
                      profilePicture |-> (CHOOSE u \in owner : TRUE).profilePicture])]

\* A faulty variant: .sort({ createdAt: 1 }): oldest first
Ascending(q) == \A a, b \in DOMAIN q : a < b => q[a].createdAt <= q[b].createdAt

\* .sort({ createdAt: -1 }): the order of equal keys is the store's choice.
Descending(q) == \A a, b \in DOMAIN q : a < b => q[a].createdAt >= q[b].createdAt

\* The results Post.find({ userId }).sort(...) may give.
Sorted(found) ==
    {q \in [1..Cardinality(found) -> found] :
        /\ \A a, b \in DOMAIN q : a # b => q[a] # q[b]
        /\ Descending(q)}

\* GET /user-posts/:userId
UserPosts(i) ==
    /\ pc[i] = "userPosts"
    /\ LET found == {p \in posts : p.userId = req[i].userId}
       IN /\ \E q \in Sorted(found) :
                Respond(i, 200, [k \in DOMAIN q |-> Populate(q[k])])
          /\ hist' = [hist EXCEPT ![i].expect = {p.id : p \in found}]
    /\ UNCHANGED <<rev, clock, stores, uploads, req, loc, bg, cron, saved>>

\* A faulty variant: an id that matches no post is answered 404
DeleteStatusChecked(postId) == IF \E p \in posts : p.id = postId THEN 200 ELSE 404

\* The status of DELETE /delete-post/:postId: the result of
\* findByIdAndDelete is not looked at.
DeleteStatus(postId) == 200

\* DELETE /delete-post/:postId
DeletePost(i) ==
    /\ pc[i] = "deletePost"
    /\ posts' = {p \in posts : p.id # req[i].postId}
    /\ hist' = [hist EXCEPT ![i].wrote = (posts' # posts)]
    /\ Respond(i, DeleteStatus(req[i].postId),
               Message(IF DeleteStatus(req[i].postId) = 200
                          THEN "Post deleted successfully" ELSE "Post not found"))
    /\ UNCHANGED <<rev, clock, users, sections, uploads, req, loc, bg, cron, saved>>

----------------------------------------------------------------------------
(* The profile picture, and the git sync of the git-sync revision. *)

\* User.findById(userId)
ById(i) == {u \in users : u.id = req[i].userId}

\* POST /update-profile-picture, to the first await: User.findById.
UpdFind(i) ==
    /\ pc[i] = "updFind"
    /\ IF FindOne(ById(i)) = {}
          THEN /\ Respond(i, 404, Message("User not found"))
               /\ UNCHANGED loc
          ELSE /\ loc' = [loc EXCEPT ![i].user = FindOne(ById(i))]
               /\ pc' = [pc EXCEPT ![i] = "updSave"]
               /\ UNCHANGED resp
    /\ UNCHANGED <<rev, clock, stores, uploads, req, bg, cron, hist, saved>>

\* user.profilePicture = profilePicture; user.save()
SavePicture(i) ==
    {IF u.id = req[i].userId THEN [u EXCEPT !.profilePicture = ProfilePicture(i)]
                             ELSE u : u \in users}

\* POST /update-profile-picture: user.save(), the sync and the response.
\* The git-sync revision reads req.file.path, which throws when the
\* request carries no file.
UpdSave(i) ==
    /\ pc[i] = "updSave"
    /\ users' = SavePicture(i)
    /\ hist' = [hist EXCEPT ![i].wrote = (users' # users)]
    /\ IF rev = "gitsync" /\ req[i].files = <<>>
          THEN /\ Respond(i, 500, Message("Internal server error"))
               /\ UNCHANGED bg
          ELSE /\ bg' = StartSync(i)
               /\ Respond(i, 200, [message |-> "Profile picture updated successfully",
                                   profilePicture |-> ProfilePicture(i)])
    /\ UNCHANGED <<rev, clock, posts, sections, uploads, req, loc, cron, saved>>

\* The stage that follows a git stage that succeeded.
NextStage(stage) ==
    CASE stage = "add" -> "commit"
      [] stage = "commit" -> "push"
      [] stage = "push" -> "pushed"

\* A faulty variant: the error of the sync reaches the client
SyncErrorSurfaces(i) == [status |-> 500, body |-> Message("Internal server error")]

\* catch (err) { console.error(...) }: the response stays as it was sent.
SyncErrorResponse(i) == resp[i]

\* commitAndPushFiles: git.add, git.commit, git.push in turn; each may
\* fail, and a failure is caught and logged.
GitStep(i) ==
    /\ bg[i] \in {"add", "commit", "push"}
    /\ \/ /\ bg' = [bg EXCEPT ![i] = NextStage(bg[i])]
          /\ UNCHANGED resp
       \/ /\ bg' = [bg EXCEPT ![i] = "failed"]
          /\ resp' = [resp EXCEPT ![i] = SyncErrorResponse(i)]
    /\ UNCHANGED <<rev, clock, stores, uploads, req, pc, loc, cron, hist, saved>>

\* The callback of git.pull returns after logging: the timer stays.
StillScheduled(outcome) == cron.scheduled

\* cron.schedule('*/30 * * * * *', ...): one tick, whose pull may fail.
Pull ==
    /\ rev = "gitsync"
    /\ cron.scheduled
    /\ cron.pulls < MaxPulls
    /\ \E outcome \in {"ok", "error"} :
          cron' = [scheduled |-> StillScheduled(outcome),
                   pulls |-> cron.pulls + 1,
                   last |-> outcome,
                   afterError |-> (cron.afterError \/ cron.last = "error")]
    /\ UNCHANGED <<rev, clock, stores, uploads, req, pc, loc, resp, bg, hist, saved>>

----------------------------------------------------------------------------
Init ==
    /\ rev \in {"disk", "gitsync"}
    /\ clock = 0
    /\ users = {}
    /\ posts = {}
    /\ sections = <<>>
    /\ uploads = {}
    /\ req = [i \in Reqs |-> NoReq]
    /\ pc = [i \in Reqs |-> "new"]
    /\ loc = [i \in Reqs |-> NoLoc]
    /\ resp = [i \in Reqs |-> NoResp]
    /\ bg = [i \in Reqs |-> "none"]
    /\ cron = [scheduled |-> TRUE, pulls |-> 0, last |-> "none", afterError |-> FALSE]
    /\ hist = [i \in Reqs |-> NoHist]
    /\ saved = {}

(* Registration and login. *)
NextAuth ==
    \E i \in 1..AuthReqs :
        \/ \E r \in RegisterReqs \cup LoginReqs : Arrive(i, r)
        \/ Upload(i)
        \/ RegFind(i)
        \/ RegSave(i)
        \/ LoginFind(i)
        \/ LoginCompare(i)

\* The local-disk revision.  Its /register, /login, /save-section,
\* /get-sections, /user-posts and /delete-post are those of the git-sync
\* revision, line for line.
InitDisk == Init /\ rev = "disk"

SpecAuth == InitDisk /\ [][NextAuth]_vars

(* The section store. *)
NextSections ==
    \E i \in 1..SectionReqs :
        \/ \E r \in SaveSectionReqs \cup GetSectionsReqs : Arrive(i, r)
        \/ SaveSection(i)
        \/ SectionInsert(i)
        \/ GetSections(i)

SpecSections == InitDisk /\ [][NextSections]_vars

(* The post store. *)
NextPosts ==
    \/ Tick
    \/ \E i \in 1..PostReqs :
        \/ \E r \in Bare(CreatePostReqs) \cup {u \in UserPostsReqs : u.userId = 1}
                    \cup DeletePostReqs : Arrive(i, r)
        \/ CreatePost(i)
        \/ PostSave(i)
        \/ UserPosts(i)
        \/ DeletePost(i)

SpecPosts == InitDisk /\ [][NextPosts]_vars

(* The uploads directory. *)
NextMedia ==
    \/ Tick
    \/ \E i \in 1..MediaReqs :
        \/ \E r \in {c \in CreatePostReqs : c.userId = 1} : Arrive(i, r)
        \/ Upload(i)
        \/ CreatePost(i)
        \/ PostSave(i)

SpecMedia == InitDisk /\ [][NextMedia]_vars

(* Both revisions: profile pictures, posts, and the git sync. *)
NextSync ==
    \/ Pull
    \/ \E i \in 1..SyncReqs :
        \/ \E r \in Plain({c \in RegisterReqs :
                              c.email = "a@x.com" /\ c.username = "a" /\ c.password = "p"})
                    \cup {c \in UpdatePictureReqs : c.userId \in UserIds}
                    \cup Plain({c \in CreatePostReqs : c.userId = 1}) : Arrive(i, r)
        \/ Upload(i)
        \/ RegFind(i)
        \/ RegSave(i)
        \/ UpdFind(i)
        \/ UpdSave(i)
        \/ CreatePost(i)
        \/ PostSave(i)
        \/ GitStep(i)

SpecSync == Init /\ [][NextSync]_vars

----------------------------------------------------------------------------
(* Properties. *)

IsOp(i, op) == req[i].op = op

\* Request j was received after request i had been answered 201, and asks
\* for the email or the username that request i registered.
RegisteredBefore(i, j) ==
    /\ IsOp(i, "register") /\ IsOp(j, "register")
    /\ i \in hist[j].after
    /\ resp[i].status = 201
    /\ req[j].email = req[i].email \/ req[j].username = req[i].username

\* C1: once a POST /register has been answered 201, every POST /register
\* received later for the same email or the same username is answered 400
\* 'Email or username already exists' and creates no user record.
C1_SecondRegisterIs400 ==
    \A i, j \in Reqs :
        RegisteredBefore(i, j) =>
            /\ Done(j) =>
                  resp[j] = [status |-> 400,
                             body |-> Message("Email or username already exists")]
            /\ ~hist[j].wrote
            /\ \A u \in users : u.id # j

\* C1's case: a later registration of a taken username under a new email
\* has been answered.
C1_Witness ==
    \E i, j \in Reqs :
        /\ RegisteredBefore(i, j)
        /\ req[j].email # req[i].email
        /\ Done(j)

\* C2: no two user records share an email and no two share a username.
C2_UsersUnique ==
    \A u, v \in users :
        u # v => u.email # v.email /\ u.username # v.username /\ u.id # v.id

\* C2's case: two registrations of one email both passed the existence
\* check before either saved, and both have been answered.
C2_Witness ==
    \E i, j \in Reqs :
        /\ i # j
        /\ IsOp(i, "register") /\ IsOp(j, "register")
        /\ req[i].email = req[j].email
        /\ resp[i].status = 201
        /\ resp[j].status = 500

\* C3: POST /login is answered 200 if and only if a user record with the
\* username exists whose stored hash the password matches, and 400 in
\* every other case; a 200 body holds the username, the profile picture
\* and the id of that user and nothing else.
C3_LoginIffMatch ==
    \A i \in Reqs :
        (IsOp(i, "login") /\ Done(i)) =>
            /\ resp[i].status \in {200, 400}
            /\ resp[i].status = 200 <=> hist[i].match
            /\ resp[i].status = 200 =>
                  /\ DOMAIN resp[i].body = {"username", "profilePicture", "userId"}
                  /\ \E u \in users :
                        /\ u.username = req[i].username
                        /\ resp[i].body.username = u.username
                        /\ resp[i].body.profilePicture = u.profilePicture
                        /\ resp[i].body.userId = u.id

\* C3's case: a login with the registered password has been answered 200
\* with the picture stored at registration.
C3_Witness ==
    \E i \in Reqs :
        /\ IsOp(i, "login") /\ Done(i)
        /\ resp[i].status = 200
        /\ resp[i].body.profilePicture # Null

\* C4: the section store holds exactly one record per saved
\* (userId, sectionId), and its content is that of the last save applied.
C4_OneRecordPerSection ==
    \A r \in saved :
        LET held == {k \in 1..Len(sections) :
                        /\ sections[k].userId = r.userId
                        /\ sections[k].sectionId = r.sectionId}
        IN /\ Cardinality(held) = 1
           /\ \A k \in held : sections[k].content = r.content

\* C6: GET /get-sections/:userId returns the mapping from the section
\* identifiers saved for the user to the content of the latest save of each.
C6_SectionsAreLatestSaves ==
    \A i \in Reqs :
        (IsOp(i, "get-sections") /\ Done(i)) =>
            /\ resp[i].status = 200
            /\ resp[i].body = hist[i].expect

\* The position of the post of request j in the answer to request i.
PositionIn(i, j) == CHOOSE k \in DOMAIN resp[i].body : resp[i].body[k].id = j

\* The createdAt of the post that request j constructed.
CreatedAt(j) == (CHOOSE d \in loc[j].post : TRUE).createdAt

\* GET /user-posts/:userId returns exactly the posts of the user.
ReturnsPostsOfUser(i) ==
    /\ resp[i].status = 200
    /\ {resp[i].body[k].id : k \in DOMAIN resp[i].body} = hist[i].expect
    /\ Len(resp[i].body) = Cardinality(hist[i].expect)

\* C5 as claimed: GET /user-posts/:userId returns exactly the posts of the
\* user, and a post created before another appears after it, also when
\* both received the same createdAt.
C5_StrictlyNewestFirst ==
    \A i \in Reqs :
        (IsOp(i, "user-posts") /\ Done(i)) =>
            /\ ReturnsPostsOfUser(i)
            /\ \A p1, p2 \in hist[i].expect :
                  hist[p1].order < hist[p2].order =>
                      PositionIn(i, p1) > PositionIn(i, p2)

\* C5 as amended: GET /user-posts/:userId returns exactly the posts of the
\* user, and a post whose createdAt is earlier than another's appears
\* after it: a post created before another appears after it unless both
\* received the same createdAt, and then they appear in either order.
C5_NewestFirstByCreatedAt ==
    \A i \in Reqs :
        (IsOp(i, "user-posts") /\ Done(i)) =>
            /\ ReturnsPostsOfUser(i)
            /\ \A a, b \in DOMAIN resp[i].body :
                  resp[i].body[a].createdAt < resp[i].body[b].createdAt => a > b
            /\ \A p1, p2 \in hist[i].expect :
                  (hist[p1].order < hist[p2].order
                      /\ CreatedAt(p1) # CreatedAt(p2)) =>
                          PositionIn(i, p1) > PositionIn(i, p2)

\* C5's case: a user's two posts of different createdAt have been listed.
C5_Witness ==
    \E i \in Reqs :
        /\ IsOp(i, "user-posts") /\ Done(i)
        /\ Len(resp[i].body) = 2
        /\ resp[i].body[1].createdAt > resp[i].body[2].createdAt

\* The blobs stored so far: the k-th file of request i.
Blobs == {<<i, k>> : i \in Reqs, k \in 1..MaxFiles} \cap
         {b \in Reqs \X (1..MaxFiles) : b[2] <= Len(loc[b[1]].names)}

\* C7: two distinct stored blobs have distinct file names, and a URL that
\* was returned still refers to the blob it was returned for.
C7_DistinctNames ==
    /\ \A b, c \in Blobs :
          b # c => loc[b[1]].names[b[2]] # loc[c[1]].names[c[2]]
    /\ \A i \in Reqs :
          (IsOp(i, "create-post") /\ resp[i].status = 201) =>
              \A k \in DOMAIN resp[i].body.imageUrl :
                  [name |-> resp[i].body.imageUrl[k].name, blob |-> <<i, k>>]
                      \in uploads

\* C9: DELETE /delete-post/:postId is answered 200, removes the post of
\* that id if there is one, and leaves every other post and every user
\* and section record as it was.
C9_DeleteFrame ==
    [][\A i \in Reqs :
          (pc[i] = "deletePost" /\ pc'[i] = "done") =>
              /\ resp'[i].status = 200
              /\ posts' = {p \in posts : p.id # req[i].postId}
              /\ \A p \in posts : p.id # req[i].postId => p \in posts'
              /\ (\A p \in posts : p.id # req[i].postId) => posts' = posts
              /\ users' = users
              /\ sections' = sections]_vars

\* C9's case: the delete of a post that existed has been repeated, and
\* both requests have been answered.
C9_Witness ==
    \E i, j, k \in Reqs :
        /\ i # j
        /\ IsOp(i, "delete-post") /\ IsOp(j, "delete-post")
        /\ IsOp(k, "create-post")
        /\ req[i].postId = k /\ req[j].postId = k
        /\ Done(i) /\ Done(j)
        /\ hist[i].wrote /\ ~hist[j].wrote
        /\ i \in hist[j].after

\* The response of a request that started the sync.
SyncedResponse(i) ==
    IF IsOp(i, "create-post")
       THEN [status |-> 201,
             body |-> [message |-> "Post created successfully",
                       imageUrl |-> ImageUrl(i)]]
       ELSE [status |-> 200,
             body |-> [message |-> "Profile picture updated successfully",
                       profilePicture |-> ProfilePicture(i)]]

\* C8: whatever becomes of add, commit and push, the request that started
\* them has been answered with its success response and stays so, and the
\* timer of the scheduled pull stays on after a failed pull.
C8_SyncIsFireAndForget ==
    /\ \A i \in Reqs :
          bg[i] # "none" =>
              /\ rev = "gitsync"
              /\ Done(i)
              /\ resp[i] = SyncedResponse(i)
    /\ cron.scheduled
    /\ cron.last = "error" => (cron.pulls < MaxPulls => ENABLED Pull)

\* C8's case: the sync of a new profile picture failed after the request
\* was answered 200, and a pull was attempted after a failed pull.
C8_Witness ==
    \E i \in Reqs :
        /\ IsOp(i, "update-profile-picture")
        /\ bg[i] = "failed"
        /\ resp[i].status = 200
        /\ cron.afterError

\* C10: a request answered 400, 404 or 500 has changed no store.
C10_ErrorsWriteNothing ==
    \A i \in Reqs :
        (Done(i) /\ resp[i].status \in {400, 404, 500}) => ~hist[i].wrote

====
